---- MODULE Spec2Model ----
(***************************************************************************)
(* SmartThings OAuth token lifecycle and device-capture workflow of the    *)
(* Tizen EFL samples.  The live-capture application (ST_LIVE_REFRESH,      *)
(* src/unnamed/part_000 lines 287-837) is the main program; the variants   *)
(* of the token and download code found in the other samples are modelled  *)
(* next to it, each under a specification of its own.                      *)
(*                                                                         *)
(* Text (HTTP bodies, the token file) is a sequence of symbols: a symbol   *)
(* is one character, except that a JSON key with its quotes, a token-file  *)
(* key and the URL scheme prefix are single symbols.                       *)
(***************************************************************************)
EXTENDS Integers, Sequences, FiniteSets, TLC

\* ------------------------------------------------------------------ bounds
MaxSkipped == 1
MaxTimers == 2

\* ------------------------------------------------------------------ text
QUOTE == "\""
COLON == ":"
EQ == "="
NL == "\n"
SP == " "
KeyAccess == "\"access_token\""
KeyRefresh == "\"refresh_token\""
HTTPS == "https://"

EmptyStr == << >>
TokA == <<"a">>
TokB == <<"b">>
\* token values the tests use; tokens are opaque strings without whitespace
Tokens == {EmptyStr, TokA, TokB}
NewTokens == {TokB}
NoFile == <<"NoFile">>
NULL == <<"NULL">>
NoTimer == 0

\* ad->worker = NULL: no request worker of the HTTP tester
NoThread == 0

\* strchr/strstr for one symbol: the first index of c in s at or after from, 0 if none
IndexFrom(s, c, from) ==
  IF \E i \in from..Len(s) : s[i] = c
  THEN CHOOSE i \in from..Len(s) : s[i] = c /\ \A j \in from..(i - 1) : s[j] # c
  ELSE 0

\* the end (exclusive) of the longest run of symbols not in stop, starting at from
RunEnd(s, stop, from) ==
  IF \E i \in from..Len(s) : s[i] \in stop
  THEN CHOOSE i \in from..Len(s) : s[i] \in stop /\ \A j \in from..(i - 1) : s[j] \notin stop
  ELSE Len(s) + 1

Slice(s, from, to) == IF to < from THEN << >> ELSE SubSeq(s, from, to)

\* sscanf(p, "\"key\"%*[^:]:\"%N[^\"]\"", dest) with p = strstr(body, "\"key\""):
\* dest keeps its old value unless every directive up to the %N[^"] matched, and a
\* %[ directive matches one character at least.
SscanfToken(body, key, old) ==
  LET p == IndexFrom(body, key, 1)
      c == RunEnd(body, {COLON}, p + 1)
      v == RunEnd(body, {QUOTE}, c + 2)
  IN  IF p = 0 THEN old
      ELSE IF c = p + 1 THEN old
      ELSE IF c > Len(body) THEN old
      ELSE IF c + 1 > Len(body) \/ body[c + 1] # QUOTE THEN old
      ELSE IF v = c + 2 THEN old
      ELSE Slice(body, c + 2, v - 1)

\* ------------------------------------------------------------------ token file
TokenData(cid, sec, ref, acc, code, ld) ==
  [client_id |-> cid, client_secret |-> sec, refresh_token |-> ref,
   access_token |-> acc, auth_code |-> code, loaded |-> ld]

ZeroTokens == TokenData(EmptyStr, EmptyStr, EmptyStr, EmptyStr, EmptyStr, FALSE)

\* fprintf of token_save
TokenFileText(t) ==
  <<"client_id", EQ>> \o t.client_id \o <<NL, "client_secret", EQ>> \o t.client_secret
  \o <<NL, "refresh_token", EQ>> \o t.refresh_token
  \o <<NL, "access_token", EQ>> \o t.access_token
  \o <<NL, "auth_code", EQ>> \o t.auth_code \o <<NL>>

\* fgets: the lines of a text, each with its newline (the last may have none)
RECURSIVE Lines(_)
Lines(text) ==
  IF text = << >> THEN << >>
  ELSE LET n == IndexFrom(text, NL, 1)
       IN  IF n = 0 THEN <<text>>
           ELSE <<Slice(text, 1, n)>> \o Lines(Slice(text, n + 1, Len(text)))

RECURSIVE SkipBlanks(_, _)
SkipBlanks(s, from) ==
  IF from <= Len(s) /\ s[from] \in {SP, "\t"} THEN SkipBlanks(s, from + 1) ELSE from

\* parse_kv_line: <<key, value>>; no '=' gives two empty strings
parse_kv_line(line) ==
  LET eq == IndexFrom(line, EQ, 1)
      val == SkipBlanks(line, eq + 1)
      end == RunEnd(line, {"\r", NL}, val)
  IN  IF eq = 0 THEN <<EmptyStr, EmptyStr>>
      ELSE <<Slice(line, 1, eq - 1), Slice(line, val, end - 1)>>

StoreField(t, kv) ==
  IF kv[1] = <<"client_id">> THEN [t EXCEPT !.client_id = kv[2]]
  ELSE IF kv[1] = <<"client_secret">> THEN [t EXCEPT !.client_secret = kv[2]]
  ELSE IF kv[1] = <<"refresh_token">> THEN [t EXCEPT !.refresh_token = kv[2]]
  ELSE IF kv[1] = <<"access_token">> THEN [t EXCEPT !.access_token = kv[2]]
  ELSE IF kv[1] = <<"auth_code">> THEN [t EXCEPT !.auth_code = kv[2]]
  ELSE t

RECURSIVE LoadLines(_, _)
LoadLines(t, ls) ==
  IF ls = << >> THEN t
  ELSE LoadLines(StoreField(t, parse_kv_line(Head(ls))), Tail(ls))

\* token_load: nothing when already loaded; a missing file loads all-empty fields
token_load(t, f) ==
  IF t.loaded THEN t
  ELSE IF f = NoFile THEN [ZeroTokens EXCEPT !.loaded = TRUE]
  ELSE [LoadLines(ZeroTokens, Lines(f)) EXCEPT !.loaded = TRUE]

\* a token_request that would not look at the access token it holds
ParseFailedNever(t) == FALSE

\* token_request after curl_easy_perform returned r (NoResp: a curl error; an empty
\* body leaves m.buf NULL): the new TokenData, the return value, whether token_save ran
NoResp == <<"NoResp">>
ParseFailed(t) == t.access_token = EmptyStr

token_request(t, r) ==
  IF r = NoResp \/ r = EmptyStr THEN [T |-> t, ok |-> FALSE, save |-> FALSE]
  ELSE LET t1 == [t EXCEPT !.access_token = SscanfToken(r, KeyAccess, t.access_token),
                           !.refresh_token = SscanfToken(r, KeyRefresh, t.refresh_token)]
       IN  IF ParseFailed(t1) THEN [T |-> t1, ok |-> FALSE, save |-> FALSE]
           ELSE [T |-> t1, ok |-> TRUE, save |-> TRUE]

\* token_save: fopen(file, "w") may fail, and then nothing is written
token_save(t, f, fopenOk) == IF fopenOk THEN TokenFileText(t) ELSE f

\* the guards of token_refresh and token_exchange_code
RefreshFieldsMissing(t) ==
  t.client_id = EmptyStr \/ t.client_secret = EmptyStr \/ t.refresh_token = EmptyStr
ExchangeFieldsMissing(t) ==
  t.client_id = EmptyStr \/ t.client_secret = EmptyStr \/ t.auth_code = EmptyStr

\* the value of a string field of a JSON object, as a JSON reader sees it (blanks
\* around the colon do not matter); absent when the key or its string is missing
JsonField(body, key) ==
  LET p == IndexFrom(body, key, 1)
      c == SkipBlanks(body, p + 1)
      q == SkipBlanks(body, c + 1)
      e == RunEnd(body, {QUOTE}, q + 1)
  IN  IF p = 0 \/ c > Len(body) \/ body[c] # COLON \/ q > Len(body) \/ body[q] # QUOTE
         \/ e > Len(body)
      THEN [present |-> FALSE, val |-> EmptyStr]
      ELSE [present |-> TRUE, val |-> Slice(body, q + 1, e - 1)]

\* ------------------------------------------------------------------ server
\* A field of a token response as the server may lay it out: compact ("k":"v"),
\* with a blank before the colon, or with a blank after it.
Compact == <<COLON>>
BlankBefore == <<SP, COLON>>
BlankAfter == <<COLON, SP>>
Field(key, sep, val) == <<key>> \o sep \o <<QUOTE>> \o val \o <<QUOTE>>
AccessFields ==
  {EmptyStr} \cup {Field(KeyAccess, sep, v) : sep \in {Compact, BlankBefore, BlankAfter},
                                             v \in {EmptyStr} \cup NewTokens}
RefreshFields ==
  {EmptyStr} \cup {Field(KeyRefresh, sep, v) : sep \in {Compact, BlankBefore}, v \in NewTokens}
Bodies == {<<"{">> \o a \o <<",">> \o r \o <<"}">> : a \in AccessFields, r \in RefreshFields}
TokenResponses == {NoResp, EmptyStr} \cup Bodies

\* An API response: code 0 with a NULL body is a curl error (http_request returns
\* NULL and leaves code 0); a status body may carry the media URL.
PlainBody == <<"{", "}">>
UrlX == <<HTTPS, "x">>
StatusBodies ==
  { PlainBody,
    <<"{", QUOTE>> \o UrlX \o <<QUOTE, "}">>,
    <<"{", QUOTE>> \o UrlX \o <<QUOTE, ",", QUOTE, HTTPS, "y", QUOTE, "}">>,
    <<"{", QUOTE>> \o UrlX }
ApiResponses(step) ==
  {[code |-> 0, body |-> NULL]}
  \cup {[code |-> c, body |-> PlainBody] : c \in {401, 500}}
  \cup {[code |-> 200, body |-> b] : b \in IF step = "status" THEN StatusBodies ELSE {PlainBody}}

\* the characters a text stands for: every symbol is one, "https://" is eight
Chars(s) == Len(s) + 7 * Cardinality({i \in 1..Len(s) : s[i] = HTTPS})

\* the widths of the %[^"] directives that read the URL
IMAGE_URL_WIDTH == 1023
SHORT_URL_WIDTH == 511

\* strstr(status, "https://") and sscanf(found, "%W[^\"]", image_url): the characters
\* up to the next quote, W of them at most; empty when there is no URL
ScanUrl(body, width) ==
  LET f == IndexFrom(body, HTTPS, 1)
      e == RunEnd(body, {QUOTE}, f) - 1
      fits == {k \in f..e : Chars(Slice(body, f, k)) <= width}
  IN  IF f = 0 THEN EmptyStr ELSE Slice(body, f, f + Cardinality(fits) - 1)

ExtractUrl(body) == ScanUrl(body, IMAGE_URL_WIDTH)

\* What the transfer of a download does: "ok" delivers the whole image, "cut" breaks
\* off after a part of it, "noconn" delivers nothing, "http401"/"http500" answer with
\* an error status and an error page.
Image == <<"i1", "i2">>
PartOfImage == <<"i1">>
ErrorPage == <<"e">>
OldImage == <<"o">>
Transfers == {"ok", "cut", "noconn", "http401", "http500"}

\* curl_easy_perform of a download: the result code and what reached the file.
\* CURLOPT_FAILONERROR turns an error status into a failed transfer with no body.
curl_download(x, failonerror) ==
  CASE x = "ok" -> [ok |-> TRUE, written |-> Image]
    [] x = "cut" -> [ok |-> FALSE, written |-> PartOfImage]
    [] x = "noconn" -> [ok |-> FALSE, written |-> EmptyStr]
    [] OTHER -> IF failonerror THEN [ok |-> FALSE, written |-> EmptyStr]
                ELSE [ok |-> TRUE, written |-> ErrorPage]

\* http_download_file of the live-capture application: fopen "wb" truncates, the
\* transfer writes, a failed transfer unlinks the file
http_download_file(old, fopenOk, x) ==
  LET r == curl_download(x, TRUE)
  IN  IF ~fopenOk THEN [img |-> old, ok |-> FALSE]
      ELSE IF ~r.ok THEN [img |-> NoFile, ok |-> FALSE]
      ELSE [img |-> r.written, ok |-> TRUE]

\* ------------------------------------------------------------------ state
\* TOKENS, file: the static TokenData and tokens.txt; img: the download's destination
\* file; live_running, live_timer, refresh_timer: appdata; timers: the timers Ecore
\* holds, period their intervals in seconds. In the auto-refresh application TOKENS is the token_data_t t of the running
\* callback.
\* pc: where the main loop is ("start" before app_create, "idle" between callbacks,
\* "token_wait"/"http_wait"/"download" inside a blocking call of the running callback,
\* "returned" when the callback has just returned); handler, step, attempt, grant,
\* curTimer, url: the running callback's position.
\* The rest records what the running callback did, from its start to its return:
\* net is the sequence of its calls and their outcomes, lastTok the bearer token of the
\* last API request, lastResp the last token response, pre the TokenData and file
\* before the last token request, tokRet/apiRet/capRet the last return values of a
\* token request, of perform_api_call and of take_image_capture; active counts the
\* captures begun and not ended, skipped the ticks that came due meanwhile.
VARIABLES TOKENS, file, img, live_running, live_timer, refresh_timer, timers, period,
          pc,
          handler, step,
          attempt, grant, curTimer, url, net, lastTok, lastResp, pre,
          tokRet, apiRet, capRet, active, skipped,
          program, res, ACCESS_TOKEN, clicked,
          now, written, worker, jobs

vars == <<TOKENS, file, img, live_running, live_timer, refresh_timer, timers, period,
          pc,
          handler, step,
          attempt, grant, curTimer, url, net, lastTok, lastResp, pre,
          tokRet, apiRet, capRet, active, skipped,
          program, res, ACCESS_TOKEN, clicked,
          now, written, worker, jobs>>

Cur ==
  [T |-> TOKENS, file |-> file, img |-> img, live_running |-> live_running,
   live_timer |-> live_timer, refresh_timer |-> refresh_timer, timers |-> timers,
   period |-> period,
   pc |-> pc, handler |-> handler,
   step |-> step, attempt |-> attempt, grant |-> grant, curTimer |-> curTimer,
   url |-> url, net |-> net, lastTok |-> lastTok,
   lastResp |-> lastResp, pre |-> pre, tokRet |-> tokRet, apiRet |-> apiRet,
   capRet |-> capRet, active |-> active, skipped |-> skipped,
   program |-> program, res |-> res, ACCESS_TOKEN |-> ACCESS_TOKEN, clicked |-> clicked]

Set(s) ==
  /\ TOKENS' = s.T /\ file' = s.file /\ img' = s.img
  /\ live_running' = s.live_running /\ live_timer' = s.live_timer
  /\ refresh_timer' = s.refresh_timer /\ timers' = s.timers /\ period' = s.period
  /\ pc' = s.pc /\ handler' = s.handler /\ step' = s.step /\ attempt' = s.attempt
  /\ grant' = s.grant /\ curTimer' = s.curTimer /\ url' = s.url
  /\ net' = s.net /\ lastTok' = s.lastTok
  /\ lastResp' = s.lastResp /\ pre' = s.pre /\ tokRet' = s.tokRet
  /\ apiRet' = s.apiRet /\ capRet' = s.capRet /\ active' = s.active
  /\ skipped' = s.skipped
  /\ program' = s.program /\ res' = s.res /\ ACCESS_TOKEN' = s.ACCESS_TOKEN
  /\ clicked' = s.clicked
  /\ UNCHANGED <<now, written, worker, jobs>>

Snapshot(t, f, i) == [T |-> t, file |-> f, img |-> i]

\* what a callback did is recorded from its start to its return
NoRecord(s) ==
  [s EXCEPT !.handler = "none", !.step = "none", !.attempt = 0, !.grant = "none",
            !.curTimer = NoTimer, !.url = EmptyStr, !.net = << >>,
            !.lastTok = EmptyStr, !.lastResp = NoResp,
            !.pre = Snapshot(ZeroTokens, NoFile, NoFile),
            !.tokRet = "none", !.apiRet = "none", !.capRet = "none", !.skipped = 0]

\* a callback starts
BeginHandler(s, h) == [s EXCEPT !.handler = h, !.pre = Snapshot(s.T, s.file, s.img)]

\* a callback returns
EndHandler(s) == [s EXCEPT !.pc = "returned", !.step = "none", !.attempt = 0, !.grant = "none"]

\* the record of one more call or outcome
Log(s, e) == [s EXCEPT !.net = Append(@, e)]

\* the names of the outcomes in the record
CodeName(code) ==
  CASE code = 200 -> "r200" [] code = 401 -> "r401" [] code = 500 -> "r500" [] OTHER -> "r0"
TransferName(fopenOk, x) == IF fopenOk THEN x ELSE "nofile"

\* ------------------------------------------------------------------ timers
\* the intervals of the live timer and of the refresh timer, in seconds
REFRESH_INTERVAL_SEC == 5
REFRESH_INTERVAL_HOURS == 24
LivePeriod == REFRESH_INTERVAL_SEC

\* a refresh timer that would fire every hour
RefreshPeriodOfAnHour == 60 * 60

RefreshPeriod == REFRESH_INTERVAL_HOURS * 3600

NoPeriods == [t \in {} |-> 0]
PeriodsOf(ts, old, h, p) == [t \in ts |-> IF t = h THEN p ELSE old[t]]

\* ecore_timer_add(p, ...) gave handle h (NoTimer when it failed)
timer_added(s, h, p) ==
  IF h = NoTimer THEN s
  ELSE [s EXCEPT !.timers = @ \cup {h}, !.period = PeriodsOf(s.timers \cup {h}, @, h, p)]

\* a callback returned ECORE_CALLBACK_CANCEL: Ecore frees its timer
timer_cancelled(s, h) ==
  [s EXCEPT !.timers = @ \ {h}, !.period = PeriodsOf(s.timers \ {h}, @, NoTimer, 0)]

\* ecore_timer_del(h): "del" for a timer that Ecore holds, "del_dead" for a handle
\* whose timer was deleted or cancelled before
ecore_timer_del(s, h) ==
  Log(timer_cancelled(s, h), IF h \in s.timers THEN "del" ELSE "del_dead")

\* a variant that would keep the handle after the delete
HandleKept(h) == h

\* the handle after if (ad->live_timer) { ecore_timer_del(...); ad->live_timer = NULL; }
HandleAfterDel(h) == NoTimer

\* live_clicked (stop) and app_terminate: the guarded delete of the live timer
del_live_timer(s) ==
  IF s.live_timer = NoTimer THEN Log(s, "nodel")
  ELSE [ecore_timer_del(s, s.live_timer) EXCEPT !.live_timer = HandleAfterDel(@)]

\* ------------------------------------------------------------------ live capture
\* a live_loop_cb that would not look at the flag before the capture
StoppedNever(running) == FALSE

\* if (!ad->live_running) return ECORE_CALLBACK_CANCEL
Stopped(running) == ~running

\* a live_loop_cb that would give up its timer after a failed capture
RenewIfCaptured(running, ok) == running /\ ok

\* return ad->live_running ? ECORE_CALLBACK_RENEW : ECORE_CALLBACK_CANCEL
Renew(running, ok) == running

\* live_loop_cb after take_image_capture returned: ECORE_CALLBACK_RENEW keeps the
\* timer, ECORE_CALLBACK_CANCEL makes Ecore delete it
live_loop_return(s, ok) ==
  LET s1 == [s EXCEPT !.capRet = IF ok THEN "ok" ELSE "fail", !.active = @ - 1]
  IN  IF Renew(s1.live_running, ok) THEN EndHandler(s1)
      ELSE EndHandler(timer_cancelled(s1, s.curTimer))

\* a perform_api_call that would refresh after every 401, the retry's too
RefreshOn401Loop(att, code) == code = 401

\* whether perform_api_call refreshes the token after this response
RefreshOn401(att, code) == att = 1 /\ code = 401

\* a retry that would start the capture over with the device command
RetryFromCommand(st) == IF st = "caps" THEN st ELSE "cmd"

\* the retry after a refresh goes to the url and payload of the call that got the 401
RetryStep(st) == st

\* http_request is entered with the current access token
send_request(s) ==
  Log([s EXCEPT !.pc = "http_wait", !.attempt = @ + 1, !.lastTok = s.T.access_token],
      s.step)

\* token_request is entered: token_refresh or token_exchange_code passed its guard
send_token_request(s, g) ==
  Log([s EXCEPT !.pc = "token_wait", !.grant = g, !.pre = Snapshot(s.T, s.file, s.img)],
      "post_token")

\* token_refresh or token_exchange_code returns
token_return(s, ok) ==
  Log([s EXCEPT !.tokRet = IF ok THEN "ok" ELSE "fail", !.grant = "none"],
      IF ok THEN "tok_ok" ELSE "tok_fail")

RECURSIVE perform_api_call(_, _)

\* perform_api_call returns ok with the response body: the caller goes on
api_return(s, ok, body) ==
  LET s1 == [s EXCEPT !.apiRet = IF ok THEN "ok" ELSE "fail"]
      u == ExtractUrl(body)
  IN  CASE s.step = "cmd" ->
             IF ok THEN perform_api_call(s1, "status") ELSE live_loop_return(s1, FALSE)
        [] s.step = "status" ->
             IF ~ok \/ body = NULL \/ u = EmptyStr THEN live_loop_return(s1, FALSE)
             ELSE Log([s1 EXCEPT !.pc = "download", !.url = u], "download")
        [] OTHER -> EndHandler(s1)

\* a perform_api_call that would send its request with no token at hand
NoTokenNever(token) == FALSE

\* if (!token || !*token): get_access_token gave nothing
NoToken(token) == token = EmptyStr

\* perform_api_call after get_access_token returned
after_get_access_token(s) ==
  IF NoToken(s.T.access_token) THEN api_return(s, FALSE, NULL) ELSE send_request(s)

\* get_access_token: load once, and with no access token try the authorization code
get_access_token(s) ==
  LET s1 == [s EXCEPT !.T = token_load(s.T, s.file)]
      s2 == Log(s1, "exchange")
  IN  IF s1.T.access_token # EmptyStr THEN [go |-> "return", s |-> s1]
      ELSE IF ExchangeFieldsMissing(s1.T)
           THEN [go |-> "return", s |-> token_return(s2, FALSE)]
           ELSE [go |-> "wait", s |-> send_token_request(s2, "exchange")]

perform_api_call(s, st) ==
  LET s0 == Log([s EXCEPT !.step = st, !.attempt = 0, !.apiRet = "none",
                          !.tokRet = "none", !.lastResp = NoResp, !.lastTok = EmptyStr,
                          !.pre = Snapshot(s.T, s.file, s.img)], "call")
      g == get_access_token(s0)
  IN  IF g.go = "wait" THEN g.s ELSE after_get_access_token(g.s)

\* a perform_api_call that would send the call again whatever the refresh gave
ResendAlways(ok) == TRUE

\* if (token_refresh(&TOKENS)) { ... resp = http_request(...) }
ResendAfterRefresh(ok) == ok

\* the blocking token request of the running callback ends with response r
after_token_request(s, r, fopenOk) ==
  LET q == token_request(s.T, r)
      s1 == token_return(
              [s EXCEPT !.T = q.T, !.lastResp = r,
                        !.file = IF q.save THEN token_save(q.T, s.file, fopenOk)
                                 ELSE s.file], q.ok)
  IN  IF s.grant = "refresh"
      THEN IF ResendAfterRefresh(q.ok) THEN send_request([s1 EXCEPT !.step = RetryStep(@)])
           ELSE api_return(s1, FALSE, PlainBody)
      ELSE IF s.step = "none" THEN EndHandler(s1) ELSE after_get_access_token(s1)

\* the blocking http_request of perform_api_call ends with response x
after_http_request(s, x) ==
  LET s0 == Log(s, CodeName(x.code))
      s1 == Log(s0, "refresh")
  IN  IF RefreshOn401(s.attempt, x.code)
      THEN IF RefreshFieldsMissing(s.T)
           THEN api_return(token_return(s1, FALSE), FALSE, x.body)
           ELSE send_token_request(s1, "refresh")
      ELSE api_return(s0, x.body # NULL /\ x.code >= 200 /\ x.code < 300, x.body)

\* take_image_capture after http_download_file returned
after_download(s, fopenOk, x) ==
  LET d == http_download_file(s.img, fopenOk, x)
  IN  live_loop_return(Log([s EXCEPT !.img = d.img], TransferName(fopenOk, x)), d.ok)

\* ------------------------------------------------------------------ live-capture application
TimerIds == 1..MaxTimers

\* tokens.txt as the user may have left it before the first start
InitialFiles ==
  {NoFile} \cup
  {TokenFileText(TokenData(cid, <<"s">>, ref, acc, code, FALSE)) :
     cid \in {EmptyStr, <<"c">>}, ref \in {EmptyStr, TokA}, acc \in {EmptyStr, TokA},
     code \in {EmptyStr, <<"k">>}}

Init ==
  /\ TOKENS = ZeroTokens /\ file \in InitialFiles /\ img \in {NoFile, OldImage}
  /\ live_running = FALSE /\ live_timer = NoTimer /\ refresh_timer = NoTimer
  /\ timers = {} /\ period = NoPeriods
  /\ pc = "start" /\ handler = "none" /\ step = "none" /\ attempt = 0
  /\ grant = "none" /\ curTimer = NoTimer /\ url = EmptyStr
  /\ net = << >> /\ lastTok = EmptyStr /\ lastResp = NoResp
  /\ pre = Snapshot(ZeroTokens, NoFile, NoFile) /\ tokRet = "none" /\ apiRet = "none"
  /\ capRet = "none" /\ active = 0 /\ skipped = 0
  /\ program = "part_000" /\ res = NoFile /\ ACCESS_TOKEN = NULL /\ clicked = FALSE
  /\ now = 0 /\ written = <<>> /\ worker = NoThread /\ jobs = <<>>

\* app_create: the window, the folders, then get_access_token
app_create ==
  /\ pc = "start"
  /\ LET g == get_access_token(BeginHandler(Cur, "create"))
     IN  Set(IF g.go = "wait" THEN g.s ELSE EndHandler(g.s))

show_caps_clicked ==
  /\ pc = "idle"
  /\ Set(perform_api_call(BeginHandler(Cur, "caps"), "caps"))

\* live_clicked: start arms a timer (ecore_timer_add may fail), stop deletes it
live_clicked ==
  /\ pc = "idle"
  /\ LET s == BeginHandler(Cur, "click")
     IN  IF ~live_running
         THEN \E t \in (TimerIds \ timers) \cup {NoTimer} :
                Set(EndHandler(timer_added([s EXCEPT !.live_running = TRUE,
                                                     !.live_timer = t], t, LivePeriod)))
         ELSE Set(EndHandler(del_live_timer([s EXCEPT !.live_running = FALSE])))

\* a main loop that would run a timer callback inside a running callback
MainLoopAlwaysFree == TRUE

\* the main loop is free to run a callback only between callbacks
MainLoopFree == pc = "idle"

\* live_loop_cb: a live timer fires; the capture runs inside the callback
live_loop_cb ==
  /\ MainLoopFree
  /\ \E t \in timers :
       LET s == [BeginHandler(Cur, "live") EXCEPT !.curTimer = t]
       IN  IF Stopped(live_running) THEN Set(EndHandler(timer_cancelled(s, t)))
           ELSE Set(perform_api_call([s EXCEPT !.active = @ + 1], "cmd"))

\* curl_easy_perform of token_request returns
token_request_returns ==
  /\ pc = "token_wait"
  /\ \E r \in TokenResponses, fopenOk \in BOOLEAN : Set(after_token_request(Cur, r, fopenOk))

\* curl_easy_perform of http_request returns
http_request_returns ==
  /\ pc = "http_wait"
  /\ \E x \in ApiResponses(step) : Set(after_http_request(Cur, x))

\* http_download_file runs
download_returns ==
  /\ pc = "download"
  /\ \E fopenOk \in BOOLEAN, x \in Transfers : Set(after_download(Cur, fopenOk, x))

\* the timer's interval passes while its callback still runs: no callback is started
\* and none is queued
tick_during_capture ==
  /\ handler = "live" /\ pc \in {"token_wait", "http_wait", "download"}
  /\ skipped < MaxSkipped
  /\ Set([Cur EXCEPT !.skipped = @ + 1])

\* app_terminate is the last callback; when it follows another callback at once, the
\* calls of that one are still on record
app_terminate ==
  /\ pc \in {"idle", "returned"}
  /\ Set([del_live_timer([NoRecord(Cur) EXCEPT !.handler = "terminate", !.net = net])
            EXCEPT !.pc = "terminated"])

\* the main loop takes over again after a callback returned
main_loop ==
  /\ pc = "returned"
  /\ Set([NoRecord(Cur) EXCEPT !.pc = "idle"])

Next ==
  \/ app_create \/ show_caps_clicked \/ live_clicked \/ live_loop_cb
  \/ token_request_returns \/ http_request_returns \/ download_returns
  \/ tick_during_capture \/ app_terminate \/ main_loop

Spec == Init /\ [][Next]_vars

\* The user presses the live button while the capture of a tick runs: the callback
\* blocks the main loop, so the click waits in the event queue.
click_during_capture ==
  /\ handler = "live" /\ pc \in {"token_wait", "http_wait", "download"} /\ ~clicked
  /\ Set(Log([Cur EXCEPT !.clicked = TRUE], "click"))

\* the main loop is free again and hands the waiting click to live_clicked, which
\* finds live capture running and stops it
queued_click ==
  /\ pc = "idle" /\ clicked /\ live_running
  /\ Set(EndHandler(del_live_timer([BeginHandler(Cur, "click")
                                      EXCEPT !.live_running = FALSE, !.clicked = FALSE])))

\* the waiting click is handled before anything else the idle loop may do
NextStop ==
  \/ (~clicked \/ pc # "idle") /\ Next
  \/ click_during_capture \/ queued_click

\* A start with a complete tokens.txt and no image yet.
InitLive ==
  /\ Init /\ img = NoFile
  /\ file = TokenFileText(TokenData(<<"c">>, <<"s">>, TokA, TokA, EmptyStr, FALSE))

\* The main loop goes on: a blocking call ends (the transfers have timeouts), the loop
\* takes over after a callback, and a timer that is due again and again while the loop
\* is free gets its callback.
SpecLiveFair ==
  /\ InitLive /\ [][Next]_vars
  /\ WF_vars(token_request_returns) /\ WF_vars(http_request_returns)
  /\ WF_vars(download_returns) /\ WF_vars(main_loop)
  /\ SF_vars(live_loop_cb)

SpecLiveStop == InitLive /\ [][NextStop]_vars

\* ------------------------------------------------------------------ auto-refresh application
\* token_data_t of the auto-refresh application and tokens.txt as save_tokens writes it
token_data_t(cid, sec, code, acc, ref, dev) ==
  [client_id |-> cid, client_secret |-> sec, auth_code |-> code, access_token |-> acc,
   refresh_token |-> ref, device_id |-> dev]
ZeroTokenData == token_data_t(EmptyStr, EmptyStr, EmptyStr, EmptyStr, EmptyStr, EmptyStr)

SaveTokensText(t) ==
  <<"client_id", EQ>> \o t.client_id \o <<NL, "client_secret", EQ>> \o t.client_secret
  \o <<NL, "auth_code", EQ>> \o t.auth_code \o <<NL, "access_token", EQ>> \o t.access_token
  \o <<NL, "refresh_token", EQ>> \o t.refresh_token \o <<NL, "device_id", EQ>> \o t.device_id
  \o <<NL>>

\* save_tokens: fopen(file, "w") may fail, and then nothing is written
save_tokens(t, f, fopenOk) == IF fopenOk THEN SaveTokensText(t) ELSE f

\* one line of load_tokens: the key is the text before the first '=', the value the
\* text after it up to the end of the line; a line with no '=' is skipped
LoadTokensLine(t, line) ==
  LET eq == IndexFrom(line, EQ, 1)
      key == Slice(line, 1, eq - 1)
      val == Slice(line, eq + 1, RunEnd(line, {"\r", NL}, eq + 1) - 1)
  IN  IF eq = 0 THEN t
      ELSE IF key \in {<<k>> : k \in DOMAIN t} THEN [t EXCEPT ![key[1]] = val]
      ELSE t

RECURSIVE LoadTokensLines(_, _)
LoadTokensLines(t, ls) ==
  IF ls = << >> THEN t ELSE LoadTokensLines(LoadTokensLine(t, Head(ls)), Tail(ls))

\* load_tokens: false when tokens.txt cannot be opened
load_tokens(t, f) ==
  IF f = NoFile THEN [ok |-> FALSE, T |-> t]
  ELSE [ok |-> TRUE, T |-> LoadTokensLines(t, Lines(f))]

\* parse_and_store_tokens on the body m.buf
parse_and_store_tokens(t, r) ==
  IF IndexFrom(r, KeyAccess, 1) = 0 THEN [T |-> t, ok |-> FALSE]
  ELSE LET t1 == [t EXCEPT !.access_token = SscanfToken(r, KeyAccess, t.access_token),
                           !.refresh_token = SscanfToken(r, KeyRefresh, t.refresh_token)]
       IN  [T |-> t1, ok |-> t1.access_token # EmptyStr]

\* http_download_file of the auto-refresh application: fopen "wb" truncates, the
\* transfer writes whatever arrives, the result is that of curl_easy_perform
auto_http_download_file(old, fopenOk, x) ==
  LET r == curl_download(x, FALSE)
  IN  IF ~fopenOk THEN [img |-> old, ok |-> FALSE]
      ELSE [img |-> r.written, ok |-> r.ok]

\* the end of the running callback: app_create arms the refresh timer with tm
\* (ecore_timer_add may fail), refresh_timer_cb returns ECORE_CALLBACK_RENEW
auto_return(s, tm) ==
  IF s.handler = "create"
  THEN EndHandler(timer_added([s EXCEPT !.refresh_timer = tm], tm, RefreshPeriod))
  ELSE EndHandler(s)

\* take_image_capture of the auto-refresh application up to its first request
auto_take_image_capture(s) ==
  Log([s EXCEPT !.pc = "http_wait", !.step = "cmd", !.active = @ + 1,
                !.lastTok = s.T.access_token], "cmd")

\* take_image_capture returns to app_create
auto_capture_return(s, ok, tm) ==
  auto_return([s EXCEPT !.capRet = IF ok THEN "ok" ELSE "fail", !.active = @ - 1], tm)

\* refresh_tokens and exchange_auth_code up to http_post_form
refresh_tokens(s) ==
  LET s1 == Log(s, "refresh")
  IN  IF s.T.refresh_token = EmptyStr THEN [go |-> "false", s |-> token_return(s1, FALSE)]
      ELSE [go |-> "wait", s |-> send_token_request(s1, "refresh")]
exchange_auth_code(s) ==
  [go |-> "wait", s |-> send_token_request(Log(s, "exchange"), "exchange")]

check_tokens_and_refresh(s) ==
  IF s.T.access_token = EmptyStr
  THEN IF s.T.refresh_token # EmptyStr THEN refresh_tokens(s)
       ELSE IF s.T.auth_code # EmptyStr THEN exchange_auth_code(s)
       ELSE [go |-> "false", s |-> s]
  ELSE [go |-> "true", s |-> s]

\* http_post_form returned r: the rest of refresh_tokens or exchange_auth_code, and
\* of the callback that called it
after_http_post_form(s, r, fopenOk, tm) ==
  LET q == IF r = NoResp THEN [T |-> s.T, ok |-> FALSE] ELSE parse_and_store_tokens(s.T, r)
      s1 == token_return(
              [s EXCEPT !.T = q.T, !.lastResp = r,
                        !.file = IF q.ok THEN save_tokens(q.T, s.file, fopenOk)
                                 ELSE s.file], q.ok)
  IN  IF s.handler = "create" /\ q.ok THEN auto_take_image_capture(s1)
      ELSE auto_return(s1, tm)

\* the command request returned: only the result of curl_easy_perform is looked at
after_command(s, x, tm) ==
  LET s0 == Log(s, CodeName(x.code))
  IN  IF x.code = 0 THEN auto_capture_return(s0, FALSE, tm)
      ELSE Log([s0 EXCEPT !.step = "status"], "status")

\* the status request returned: whatever body arrived is searched for the URL
after_status(s, x, tm) ==
  LET s0 == Log(s, CodeName(x.code))
      body == IF x.body = NULL THEN EmptyStr ELSE x.body
  IN  IF IndexFrom(body, HTTPS, 1) = 0 THEN auto_capture_return(s0, FALSE, tm)
      ELSE Log([s0 EXCEPT !.pc = "download", !.url = ScanUrl(body, SHORT_URL_WIDTH)],
               "download")

auto_after_download(s, fopenOk, x, tm) ==
  LET d == auto_http_download_file(s.img, fopenOk, x)
  IN  auto_capture_return(Log([s EXCEPT !.img = d.img], TransferName(fopenOk, x)), d.ok, tm)

\* tokens.txt as the user may have left it before the first start
AutoInitialFiles ==
  {NoFile} \cup
  {SaveTokensText(token_data_t(<<"c">>, <<"s">>, code, acc, ref, <<"d">>)) :
     code \in {EmptyStr, <<"k">>}, acc \in {EmptyStr, TokA}, ref \in {EmptyStr, TokA}}

NewTimers == (TimerIds \ timers) \cup {NoTimer}

InitAuto ==
  /\ TOKENS = ZeroTokenData /\ file \in AutoInitialFiles /\ img \in {NoFile, OldImage}
  /\ live_running = FALSE /\ live_timer = NoTimer /\ refresh_timer = NoTimer
  /\ timers = {} /\ period = NoPeriods
  /\ pc = "start" /\ handler = "none" /\ step = "none" /\ attempt = 0
  /\ grant = "none" /\ curTimer = NoTimer /\ url = EmptyStr
  /\ net = << >> /\ lastTok = EmptyStr /\ lastResp = NoResp
  /\ pre = Snapshot(ZeroTokenData, NoFile, NoFile) /\ tokRet = "none" /\ apiRet = "none"
  /\ capRet = "none" /\ active = 0 /\ skipped = 0
  /\ program = "part_010" /\ res = NoFile /\ ACCESS_TOKEN = NULL /\ clicked = FALSE
  /\ now = 0 /\ written = <<>> /\ worker = NoThread /\ jobs = <<>>

\* app_create: with no tokens.txt it returns before the timer is armed
auto_app_create ==
  /\ pc = "start"
  /\ \E tm \in NewTimers :
       LET s == BeginHandler(Cur, "create")
           l == load_tokens(ZeroTokenData, file)
           c == check_tokens_and_refresh([s EXCEPT !.T = l.T])
       IN  IF ~l.ok THEN Set(EndHandler(s))
           ELSE CASE c.go = "wait" -> Set(c.s)
                  [] c.go = "true" -> Set(auto_take_image_capture(c.s))
                  [] OTHER -> Set(auto_return(c.s, tm))

\* refresh_timer_cb: the refresh timer fires
refresh_timer_cb ==
  /\ MainLoopFree
  /\ \E t \in timers :
       LET s == [BeginHandler(Cur, "refresh_timer") EXCEPT !.curTimer = t]
           l == load_tokens(ZeroTokenData, file)
           r == refresh_tokens([s EXCEPT !.T = l.T])
       IN  IF ~l.ok THEN Set(EndHandler(s))
           ELSE IF r.go = "wait" THEN Set(r.s) ELSE Set(auto_return(r.s, NoTimer))

\* curl_easy_perform of http_post_form returns
http_post_form_returns ==
  /\ pc = "token_wait"
  /\ \E r \in TokenResponses, fopenOk \in BOOLEAN, tm \in NewTimers :
       Set(after_http_post_form(Cur, r, fopenOk, tm))

command_returns ==
  /\ pc = "http_wait" /\ step = "cmd"
  /\ \E x \in ApiResponses("cmd"), tm \in NewTimers : Set(after_command(Cur, x, tm))

status_returns ==
  /\ pc = "http_wait" /\ step = "status"
  /\ \E x \in ApiResponses("status"), tm \in NewTimers : Set(after_status(Cur, x, tm))

auto_download_returns ==
  /\ pc = "download"
  /\ \E fopenOk \in BOOLEAN, x \in Transfers, tm \in NewTimers :
       Set(auto_after_download(Cur, fopenOk, x, tm))

\* app_terminate: curl_global_cleanup only
auto_app_terminate ==
  /\ pc = "idle"
  /\ Set([Cur EXCEPT !.pc = "terminated"])

\* the main loop takes over again; the callback's token_data_t is gone
auto_main_loop ==
  /\ pc = "returned"
  /\ Set([NoRecord(Cur) EXCEPT !.pc = "idle", !.T = ZeroTokenData,
                               !.pre = Snapshot(ZeroTokenData, NoFile, NoFile)])

NextAuto ==
  \/ auto_app_create \/ refresh_timer_cb \/ http_post_form_returns
  \/ command_returns \/ status_returns \/ auto_download_returns
  \/ auto_app_terminate \/ auto_main_loop

SpecAuto == InitAuto /\ [][NextAuto]_vars

\* ------------------------------------------------------------------ token store
\* TokenData, save_tokens and load_tokens of the refresh fragment of smartthings_v2.c
v2_TokenData(cid, sec, ref, acc) ==
  [client_id |-> cid, client_secret |-> sec, refresh_token |-> ref, access_token |-> acc]
v2_ZeroTokens == v2_TokenData(EmptyStr, EmptyStr, EmptyStr, EmptyStr)

v2_save_tokens(t, f, fopenOk) ==
  IF ~fopenOk THEN f
  ELSE <<"client_id", EQ>> \o t.client_id \o <<NL, "client_secret", EQ>> \o t.client_secret
       \o <<NL, "refresh_token", EQ>> \o t.refresh_token
       \o <<NL, "access_token", EQ>> \o t.access_token \o <<NL>>

\* white space as the scanf family sees it
White == {SP, NL, "\t", "\r"}
RECURSIVE SkipWhite(_, _)
SkipWhite(s, from) ==
  IF from <= Len(s) /\ s[from] \in White THEN SkipWhite(s, from + 1) ELSE from

\* the loop over fscanf(fp, "%255[^=]=%4095s\n", key, value) == 2 from place pos of
\* the file: %[^=] takes at least one character up to the '=', %s skips white space
\* (line ends too) and takes the characters up to the next white space, "\n" skips
\* white space
RECURSIVE FscanfLoop(_, _, _)
FscanfLoop(t, text, pos) ==
  LET e == RunEnd(text, {EQ}, pos)
      v == SkipWhite(text, e + 1)
      w == RunEnd(text, White, v)
      key == Slice(text, pos, e - 1)
      value == Slice(text, v, w - 1)
      t1 == IF key \in {<<k>> : k \in DOMAIN t} THEN [t EXCEPT ![key[1]] = value] ELSE t
  IN  IF pos > Len(text) \/ e = pos \/ e > Len(text) \/ v > Len(text) THEN t
      ELSE FscanfLoop(t1, text, SkipWhite(text, w))

v2_load_tokens(f) == IF f = NoFile THEN v2_ZeroTokens ELSE FscanfLoop(v2_ZeroTokens, f, 1)

\* the token sets that are saved: those of the live-capture application and those
\* of the refresh fragment
LiveTokenSets ==
  {TokenData(<<"c">>, <<"s">>, ref, acc, code, FALSE) :
     ref \in Tokens, acc \in Tokens, code \in {EmptyStr, <<"k">>}}
V2TokenSets ==
  {v2_TokenData(cid, <<"s">>, ref, acc) : cid \in {EmptyStr, <<"c">>}, ref \in Tokens,
                                          acc \in Tokens}
IsLive(t) == "auth_code" \in DOMAIN t

InitStore ==
  /\ TOKENS \in LiveTokenSets \cup V2TokenSets /\ file = NoFile /\ img = NoFile
  /\ live_running = FALSE /\ live_timer = NoTimer /\ refresh_timer = NoTimer
  /\ timers = {} /\ period = NoPeriods
  /\ pc = "store_start" /\ handler = "none" /\ step = "none" /\ attempt = 0
  /\ grant = "none" /\ curTimer = NoTimer /\ url = EmptyStr
  /\ net = << >> /\ lastTok = EmptyStr /\ lastResp = NoResp
  /\ pre = Snapshot(ZeroTokens, NoFile, NoFile) /\ tokRet = "none" /\ apiRet = "none"
  /\ capRet = "none" /\ active = 0 /\ skipped = 0
  /\ program = "store" /\ res = NoFile /\ ACCESS_TOKEN = NULL /\ clicked = FALSE
  /\ now = 0 /\ written = <<>> /\ worker = NoThread /\ jobs = <<>>

\* token_save of the live-capture application writes TOKENS
store_token_save ==
  /\ pc = "store_start" /\ IsLive(TOKENS)
  /\ \E fopenOk \in BOOLEAN :
       Set(Log([Cur EXCEPT !.pc = "saved", !.pre = Snapshot(TOKENS, file, img),
                           !.file = token_save(TOKENS, file, fopenOk)],
               IF fopenOk THEN "save" ELSE "nofile"))

\* token_load into a TokenData that is not loaded yet
store_token_load ==
  /\ pc = "saved" /\ IsLive(TOKENS)
  /\ Set(Log([Cur EXCEPT !.pc = "loaded", !.T = token_load(ZeroTokens, file)], "load"))

store_save_tokens ==
  /\ pc = "store_start" /\ ~IsLive(TOKENS)
  /\ \E fopenOk \in BOOLEAN :
       Set(Log([Cur EXCEPT !.pc = "saved", !.pre = Snapshot(TOKENS, file, img),
                           !.file = v2_save_tokens(TOKENS, file, fopenOk)],
               IF fopenOk THEN "save" ELSE "nofile"))

store_load_tokens ==
  /\ pc = "saved" /\ ~IsLive(TOKENS)
  /\ Set(Log([Cur EXCEPT !.pc = "loaded", !.T = v2_load_tokens(file)], "load"))

NextStore ==
  \/ store_token_save \/ store_token_load \/ store_save_tokens \/ store_load_tokens

SpecStore == InitStore /\ [][NextStore]_vars

\* ------------------------------------------------------------------ reading an edited store
\* tokens.txt as a user may have edited it, read by token_load of the live-capture
\* application, by load_tokens of the auto-refresh application and by load_tokens of
\* smartthings_v2.c
Readers == {"part_000", "part_010", "smartthings_v2"}

\* the lines of the keys that all three readers know, and a line with no '='
KeyLines ==
  << <<"client_id", EQ, "c", NL>>, <<"refresh_token", EQ, "a", NL>>,
     <<"access_token", EQ, "b", NL>> >>
Malformed == <<"garbage", NL>>

RECURSIVE Concat(_)
Concat(ls) == IF ls = << >> THEN << >> ELSE Head(ls) \o Concat(Tail(ls))

\* the lines of the keys in keep, with the malformed line put before line at (none
\* when at is 0)
EditedFile(keep, at) ==
  LET ls == SelectSeq(KeyLines, LAMBDA l : l[1] \in keep)
      withBad == SubSeq(ls, 1, at - 1) \o <<Malformed>> \o SubSeq(ls, at, Len(ls))
  IN  Concat(IF at = 0 THEN ls ELSE withBad)
EditedFiles ==
  {EditedFile(x[1], x[2]) :
     x \in {y \in (SUBSET {"client_id", "refresh_token", "access_token"}) \X (0..4) :
              y[2] <= Cardinality(y[1]) + 1}}

InitRead ==
  /\ TOKENS = ZeroTokens /\ file \in EditedFiles /\ img = NoFile
  /\ live_running = FALSE /\ live_timer = NoTimer /\ refresh_timer = NoTimer
  /\ timers = {} /\ period = NoPeriods
  /\ pc = "read_start" /\ handler = "none" /\ step = "none" /\ attempt = 0
  /\ grant = "none" /\ curTimer = NoTimer /\ url = EmptyStr
  /\ net = << >> /\ lastTok = EmptyStr /\ lastResp = NoResp
  /\ pre = Snapshot(ZeroTokens, NoFile, NoFile) /\ tokRet = "none" /\ apiRet = "none"
  /\ capRet = "none" /\ active = 0 /\ skipped = 0
  /\ program \in Readers /\ res = NoFile /\ ACCESS_TOKEN = NULL /\ clicked = FALSE
  /\ now = 0 /\ written = <<>> /\ worker = NoThread /\ jobs = <<>>

read_token_load ==
  /\ pc = "read_start" /\ program = "part_000"
  /\ Set(Log([Cur EXCEPT !.pc = "read_done", !.T = token_load(ZeroTokens, file)], "load"))

read_load_tokens ==
  /\ pc = "read_start" /\ program = "part_010"
  /\ Set(Log([Cur EXCEPT !.pc = "read_done", !.T = load_tokens(ZeroTokenData, file).T],
             "load"))

read_v2_load_tokens ==
  /\ pc = "read_start" /\ program = "smartthings_v2"
  /\ Set(Log([Cur EXCEPT !.pc = "read_done", !.T = v2_load_tokens(file)], "load"))

NextRead == read_token_load \/ read_load_tokens \/ read_v2_load_tokens

SpecRead == InitRead /\ [][NextRead]_vars

\* ------------------------------------------------------------------ URL extraction
\* The URL extraction of take_image_capture on its own, as src/unnamed/part_000 and
\* src/yep.c have it: lastResp is the status body, url the image_url read from it.
Extractors == {"part_000", "yep"}

\* URLs of n characters after "https://"
UrlOf(n) == <<HTTPS>> \o [i \in 1..n |-> "u"]
UrlLens == {1, 25, 503, 504, 1015, 1016}

\* status bodies: the URL as the value of a member or on its own, followed by the
\* rest of the object, by a second URL, or by nothing at all
ExtractBodies ==
  {PlainBody} \cup
  {before \o <<QUOTE>> \o UrlOf(n) \o after :
     before \in {<<"{">>, <<"{", QUOTE, "image", QUOTE, COLON>>},
     n \in UrlLens,
     after \in {<<QUOTE, "}">>, <<QUOTE, ",", QUOTE, HTTPS, "y", QUOTE, "}">>, << >>}}

InitExtract ==
  /\ TOKENS = ZeroTokens /\ file = NoFile /\ img = NoFile
  /\ live_running = FALSE /\ live_timer = NoTimer /\ refresh_timer = NoTimer
  /\ timers = {} /\ period = NoPeriods
  /\ pc = "extract_start" /\ handler = "none" /\ step = "none" /\ attempt = 0
  /\ grant = "none" /\ curTimer = NoTimer /\ url = EmptyStr
  /\ net = << >> /\ lastTok = EmptyStr /\ lastResp \in ExtractBodies
  /\ pre = Snapshot(ZeroTokens, NoFile, NoFile) /\ tokRet = "none" /\ apiRet = "none"
  /\ capRet = "none" /\ active = 0 /\ skipped = 0
  /\ program \in Extractors /\ res = NoFile /\ ACCESS_TOKEN = NULL /\ clicked = FALSE
  /\ now = 0 /\ written = <<>> /\ worker = NoThread /\ jobs = <<>>

extract_image_url ==
  /\ pc = "extract_start" /\ program = "part_000"
  /\ Set([Cur EXCEPT !.pc = "extracted", !.url = ExtractUrl(lastResp)])

extract_image_url_yep ==
  /\ pc = "extract_start" /\ program = "yep"
  /\ Set([Cur EXCEPT !.pc = "extracted", !.url = ScanUrl(lastResp, SHORT_URL_WIDTH)])

NextExtract == extract_image_url \/ extract_image_url_yep

SpecExtract == InitExtract /\ [][NextExtract]_vars

\* ------------------------------------------------------------------ download of the image
\* The download on its own: http_download_file of src/unnamed/part_000 and
\* http_download_file_smart of src/unnamed/part_009 and of src/yep.c, with url the URL,
\* lastTok the token handed over and img the destination file.
Downloaders == {"part_000", "part_009", "yep"}

\* the texts that make a URL a signed one for a program: strstr(url, ...)
SignedMarkers(p) ==
  CASE p = "part_009" -> {"X-Amz-", "?token=", "sig=", "aws"}
    [] p = "yep" -> {"?token="}
    [] OTHER -> {}

DownloadUrls == {UrlX} \cup {UrlX \o <<mk, "v">> : mk \in SignedMarkers("part_009")}

\* whether the Authorization header goes out: part_000 asks for a non-empty token,
\* the two others for a URL without a marker (their token is never NULL here)
SendsAuthorization(p, u, token) ==
  IF p = "part_000" THEN token # EmptyStr
  ELSE \A k \in 1..Len(u) : u[k] \notin SignedMarkers(p)

\* http_download_file_smart of part_009: no CURLOPT_FAILONERROR, remove() on failure
http_download_file_smart(old, fopenOk, x) ==
  LET r == curl_download(x, FALSE)
  IN  IF ~fopenOk THEN [img |-> old, ok |-> FALSE]
      ELSE IF ~r.ok THEN [img |-> NoFile, ok |-> FALSE]
      ELSE [img |-> r.written, ok |-> TRUE]

InitDownload ==
  /\ TOKENS = ZeroTokens /\ file = NoFile /\ img \in {NoFile, OldImage}
  /\ live_running = FALSE /\ live_timer = NoTimer /\ refresh_timer = NoTimer
  /\ timers = {} /\ period = NoPeriods
  /\ pc = "download_start" /\ handler = "none" /\ step = "none" /\ attempt = 0
  /\ grant = "none" /\ curTimer = NoTimer /\ url \in DownloadUrls
  /\ net = << >> /\ lastTok \in {EmptyStr, TokA} /\ lastResp = NoResp
  /\ pre = Snapshot(ZeroTokens, NoFile, NoFile) /\ tokRet = "none" /\ apiRet = "none"
  /\ capRet = "none" /\ active = 0 /\ skipped = 0
  /\ program \in Downloaders /\ res = NoFile /\ ACCESS_TOKEN = NULL /\ clicked = FALSE
  /\ now = 0 /\ written = <<>> /\ worker = NoThread /\ jobs = <<>>

\* one download by the function of the program: the header, then the transfer
downloaded(s, d, fopenOk, x) ==
  Log(Log([s EXCEPT !.pc = "download_done", !.img = d.img,
                    !.apiRet = IF d.ok THEN "ok" ELSE "fail"],
          IF fopenOk /\ SendsAuthorization(s.program, s.url, s.lastTok) THEN "auth"
          ELSE "noauth"),
      TransferName(fopenOk, x))

download_part_000 ==
  /\ pc = "download_start" /\ program = "part_000"
  /\ \E fopenOk \in BOOLEAN, x \in Transfers :
       Set(downloaded(Cur, http_download_file(img, fopenOk, x), fopenOk, x))

download_part_009 ==
  /\ pc = "download_start" /\ program = "part_009"
  /\ \E fopenOk \in BOOLEAN, x \in Transfers :
       Set(downloaded(Cur, http_download_file_smart(img, fopenOk, x), fopenOk, x))

download_yep ==
  /\ pc = "download_start" /\ program = "yep"
  /\ \E fopenOk \in BOOLEAN, x \in Transfers :
       Set(downloaded(Cur, auto_http_download_file(img, fopenOk, x), fopenOk, x))

NextDownload == download_part_000 \/ download_part_009 \/ download_yep

SpecDownload == InitDownload /\ [][NextDownload]_vars

\* ------------------------------------------------------------------ token file initialisation
\* initialize_token_file as src/f.c, src/unnamed/part_001 and src/unnamed/part_007
\* have it; token.txt of the permanent folder is file, token.txt of the resource
\* folder is res.
Programs == {"f", "part_001", "part_007"}

kv_token_data_t(cid, sec, ref, acc, exp) ==
  [client_id |-> cid, client_secret |-> sec, refresh_token |-> ref, access_token |-> acc,
   expires_in |-> exp]
ZeroKvTokens == kv_token_data_t(EmptyStr, EmptyStr, EmptyStr, EmptyStr, EmptyStr)

\* a token long enough for validate_access_token
LongTok == <<"t", "o", "k", "e", "n", "0", "1", "2", "3", "4">>
MinTokenLen == 10

KvFileText(t) ==
  <<"client_id", EQ>> \o t.client_id \o <<NL, "client_secret", EQ>> \o t.client_secret
  \o <<NL, "refresh_token", EQ>> \o t.refresh_token \o <<NL, "access_token", EQ>>
  \o t.access_token \o <<NL, "expires_in", EQ>> \o t.expires_in \o <<NL>>

\* write_kv_file: fopen(path, "w") may fail, and then nothing is written
write_kv_file(t, f, fopenOk) == IF fopenOk THEN KvFileText(t) ELSE f

\* read_kv_file: line by line, the key before the first '=', the value up to the end
\* of the line; a line with no '=' and an unknown key are passed over
read_kv_file(t, f) ==
  IF f = NoFile THEN [ok |-> FALSE, T |-> t]
  ELSE [ok |-> TRUE, T |-> LoadTokensLines(t, Lines(f))]

\* the words validate_access_token looks for in the body of its GET
ValidMarkers(p) == IF p = "part_001" THEN {"components", "status"} ELSE {"items"}
LooksValid(p, body) == \E k \in 1..Len(body) : body[k] \in ValidMarkers(p)

\* what the validation GET may bring: nothing (http_get returns its empty buffer when
\* the transfer fails), a device list, a device status, an error object
ValidateBodies ==
  {EmptyStr, <<"{", "items", "}">>, <<"{", "components", "}">>, <<"{", "error", "}">>}

\* cJSON_Parse gives an object for a body in braces whose members are separated, not
\* led or followed, by commas
cJSON_Parse(body) ==
  /\ Len(body) >= 2 /\ body[1] = "{" /\ body[Len(body)] = "}"
  /\ body[2] # "," /\ body[Len(body) - 1] # ","

\* the responses of the token endpoint to refresh_token_c
KvTokenResponses ==
  TokenResponses \cup {PlainBody}
  \cup {<<"{">> \o Field(KeyAccess, Compact, v) \o <<"}">> : v \in {EmptyStr, LongTok}}

\* refresh_token_c after curl_easy_perform: the members that are strings are copied,
\* and true is returned for every body that parses
refresh_token_c(t, r) ==
  LET acc == JsonField(r, KeyAccess)
      ref == JsonField(r, KeyRefresh)
  IN  IF r = NoResp \/ ~cJSON_Parse(r) THEN [ok |-> FALSE, T |-> t]
      ELSE [ok |-> TRUE,
            T |-> [t EXCEPT !.access_token = IF acc.present THEN acc.val ELSE @,
                            !.refresh_token = IF ref.present THEN ref.val ELSE @]]

\* after the copy src/f.c and part_007 call refresh_token_c, part_001 does not
RefreshAfterCopy(p) == p # "part_001"

\* initialize_token_file returns ok to app_create
init_return(s, ok) == EndHandler([s EXCEPT !.apiRet = IF ok THEN "ok" ELSE "fail"])

\* ACCESS_TOKEN = strdup(t.access_token)
use_token(s) == [s EXCEPT !.ACCESS_TOKEN = s.T.access_token]

\* validate_access_token: a token of fewer than 10 characters is invalid unasked
validate_access_token(s) ==
  IF Len(s.T.access_token) < MinTokenLen
  THEN send_token_request(Log(s, "invalid"), "refresh")
  ELSE Log([s EXCEPT !.pc = "validate_wait", !.lastTok = s.T.access_token], "validate")

\* the part of initialize_token_file for a first run: copy, then (not in part_001)
\* refresh
copy_from_res(s, fopenOk) ==
  LET c == Log([s EXCEPT !.file = s.res, !.T = read_kv_file(ZeroKvTokens, s.res).T],
               "copy")
  IN  IF s.res = NoFile THEN init_return(Log(s, "nores"), FALSE)
      ELSE IF ~fopenOk THEN init_return(Log(s, "nofile"), FALSE)
      ELSE IF RefreshAfterCopy(s.program) THEN send_token_request(c, "refresh")
      ELSE init_return(use_token(c), TRUE)

\* the rest of initialize_token_file after validate_access_token
after_validate(s, body) ==
  IF LooksValid(s.program, body) THEN init_return(use_token(Log(s, "valid")), TRUE)
  ELSE send_token_request(Log(s, "invalid"), "refresh")

\* the rest of initialize_token_file after refresh_token_c: only part_001 looks at
\* the result of write_kv_file
after_refresh_token_c(s, r, fopenOk) ==
  LET q == refresh_token_c(s.T, r)
      s1 == token_return([s EXCEPT !.T = q.T, !.lastResp = r], q.ok)
      w == Log([s1 EXCEPT !.file = write_kv_file(q.T, s.file, fopenOk)],
               IF fopenOk THEN "save" ELSE "nofile")
  IN  IF ~q.ok THEN init_return(s1, FALSE)
      ELSE IF s.program = "part_001" /\ ~fopenOk THEN init_return(w, FALSE)
      ELSE init_return(use_token(w), TRUE)

KvFiles(accs) ==
  {KvFileText(kv_token_data_t(<<"c">>, <<"s">>, ref, acc, <<"e">>)) :
     ref \in {EmptyStr, TokA}, acc \in accs}

InitSeed ==
  /\ TOKENS = ZeroKvTokens /\ file \in {NoFile} \cup KvFiles({EmptyStr, TokA, LongTok})
  /\ img = NoFile
  /\ live_running = FALSE /\ live_timer = NoTimer /\ refresh_timer = NoTimer
  /\ timers = {} /\ period = NoPeriods
  /\ pc = "start" /\ handler = "none" /\ step = "none" /\ attempt = 0
  /\ grant = "none" /\ curTimer = NoTimer /\ url = EmptyStr
  /\ net = << >> /\ lastTok = EmptyStr /\ lastResp = NoResp
  /\ pre = Snapshot(ZeroKvTokens, NoFile, NoFile) /\ tokRet = "none" /\ apiRet = "none"
  /\ capRet = "none" /\ active = 0 /\ skipped = 0
  /\ program \in Programs /\ res \in {NoFile} \cup KvFiles({LongTok})
  /\ ACCESS_TOKEN = NULL /\ clicked = FALSE
  /\ now = 0 /\ written = <<>> /\ worker = NoThread /\ jobs = <<>>

\* app_create calls initialize_token_file
initialize_token_file ==
  /\ pc = "start"
  /\ \E fopenOk \in BOOLEAN :
       LET s == BeginHandler(Cur, "create")
       IN  IF file # NoFile
           THEN Set(validate_access_token(
                      Log([s EXCEPT !.T = read_kv_file(ZeroKvTokens, file).T], "read")))
           ELSE Set(copy_from_res(s, fopenOk))

\* http_get of validate_access_token returns
validate_returns ==
  /\ pc = "validate_wait"
  /\ \E body \in ValidateBodies : Set(after_validate(Cur, body))

\* curl_easy_perform of refresh_token_c returns
refresh_token_c_returns ==
  /\ pc = "token_wait"
  /\ \E r \in KvTokenResponses, fopenOk \in BOOLEAN : Set(after_refresh_token_c(Cur, r, fopenOk))

NextSeed == initialize_token_file \/ validate_returns \/ refresh_token_c_returns

SpecSeed == InitSeed /\ [][NextSeed]_vars

\* ------------------------------------------------------------------ destination of a capture
\* The local path a capture downloads to: live_loop_cb of src/unnamed/part_000 and
\* take_image_capture of src/yep.c and of src/thing.c.  now is time(NULL) in seconds,
\* written the captures invoked so far: the path of each and whether its download
\* was reached and opened the file.
appState ==
  <<TOKENS, file, img, live_running, live_timer, refresh_timer, timers, period, pc,
    handler, step, attempt, grant, curTimer, url, net, lastTok, lastResp, pre,
    tokRet, apiRet, capRet, active, skipped, program, res, ACCESS_TOKEN, clicked>>

Capturers == {"part_000", "yep", "thing"}

MaxClock == 3
MaxCaptures == 3

\* SAVE_FOLDER of src/unnamed/part_000 and of src/yep.c, CAPTURE_SAVE_DIR of src/thing.c
SAVE_FOLDER(p) ==
  IF p = "part_000" THEN "/opt/usr/home/owner/media/Images"
  ELSE "/opt/usr/home/owner/content/Pictures/"

\* strftime(buf, size, "%Y%m%d_%H%M%S", localtime(&now)): the time to the second
current_timestamp(t) == <<"%Y%m%d_%H%M%S", t>>

\* snprintf of the destination path
img_path(p, t) ==
  CASE p = "part_000" -> <<SAVE_FOLDER(p), "/captured_image.jpg">>
    [] p = "yep"      -> <<SAVE_FOLDER(p), "capture_", current_timestamp(t), ".jpg">>
    [] p = "thing"    -> <<SAVE_FOLDER(p), "capture_", <<"%ld", t>>, ".jpg">>

InitPath ==
  /\ TOKENS = ZeroTokens /\ file = NoFile /\ img = NoFile
  /\ live_running = FALSE /\ live_timer = NoTimer /\ refresh_timer = NoTimer
  /\ timers = {} /\ period = NoPeriods
  /\ pc = "idle" /\ handler = "none" /\ step = "none" /\ attempt = 0
  /\ grant = "none" /\ curTimer = NoTimer /\ url = EmptyStr
  /\ net = << >> /\ lastTok = EmptyStr /\ lastResp = NoResp
  /\ pre = Snapshot(ZeroTokens, NoFile, NoFile) /\ tokRet = "none" /\ apiRet = "none"
  /\ capRet = "none" /\ active = 0 /\ skipped = 0
  /\ program \in Capturers /\ res = NoFile /\ ACCESS_TOKEN = NULL /\ clicked = FALSE
  /\ now = 0 /\ written = <<>> /\ worker = NoThread /\ jobs = <<>>

\* one capture: the path is made before the first request, the file is opened by
\* the download only, which a failed command or status request does not reach
capture_to(p) ==
  /\ program = p /\ Len(written) < MaxCaptures
  /\ \E reached \in BOOLEAN :
       written' = Append(written, [path |-> img_path(p, now), wrote |-> reached, at |-> now])
  /\ UNCHANGED <<appState, now, worker, jobs>>

live_loop_cb_path == capture_to("part_000")

take_image_capture_yep == capture_to("yep")

take_image_capture_thing == capture_to("thing")

\* the clock of the device reaches the next second
second_passes ==
  /\ now < MaxClock
  /\ now' = now + 1
  /\ UNCHANGED <<appState, written, worker, jobs>>

NextPath ==
  live_loop_cb_path \/ take_image_capture_yep \/ take_image_capture_thing \/ second_passes

SpecPath == InitPath /\ [][NextPath]_vars

RECURSIVE Count(_, _)
Count(seq, x) ==
  IF seq = << >> THEN 0 ELSE (IF Head(seq) = x THEN 1 ELSE 0) + Count(Tail(seq), x)

\* ------------------------------------------------------------------ live button
\* live_clicked and live_loop_cb of src/unnamed/part_000, src/smartthings_v2.c,
\* src/st_rest_v1.c and src/yep.c, the capture of a tick reduced to its entry in the record, which
\* holds the captures only, each with the timer that invoked it.
LiveClickers == {"part_000", "smartthings_v2", "st_rest_v1", "yep"}

MaxTicks == 3

\* src/unnamed/part_000 keeps the handle of ecore_timer_add in ad->live_timer; the
\* other two drop it
KeepsHandle(p) == p = "part_000"

LiveTimers == {t \in timers : period[t] = LivePeriod}

InitClicks ==
  /\ TOKENS = ZeroTokens /\ file = NoFile /\ img = NoFile
  /\ live_running = FALSE /\ live_timer = NoTimer /\ refresh_timer = NoTimer
  /\ timers = {} /\ period = NoPeriods
  /\ pc = "idle" /\ handler = "none" /\ step = "none" /\ attempt = 0
  /\ grant = "none" /\ curTimer = NoTimer /\ url = EmptyStr
  /\ net = << >> /\ lastTok = EmptyStr /\ lastResp = NoResp
  /\ pre = Snapshot(ZeroTokens, NoFile, NoFile) /\ tokRet = "none" /\ apiRet = "none"
  /\ capRet = "none" /\ active = 0 /\ skipped = 0
  /\ program \in LiveClickers /\ res = NoFile /\ ACCESS_TOKEN = NULL /\ clicked = FALSE
  /\ now = 0 /\ written = <<>> /\ worker = NoThread /\ jobs = <<>>

live_clicked_start ==
  /\ ~live_running
  /\ \E t \in (TimerIds \ timers) \cup {NoTimer} :
       Set(timer_added([Cur EXCEPT !.live_running = TRUE,
                                   !.live_timer = IF KeepsHandle(program) THEN t ELSE @],
                       t, LivePeriod))

live_clicked_stop ==
  /\ live_running
  /\ LET s == [Cur EXCEPT !.live_running = FALSE]
     IN  Set(IF KeepsHandle(program) THEN [del_live_timer(s) EXCEPT !.net = s.net] ELSE s)

\* a tick of one armed timer
live_loop_cb_tick ==
  /\ \E t \in timers :
       IF Stopped(live_running) THEN Set(timer_cancelled(Cur, t))
       ELSE /\ Len(net) < MaxTicks
            /\ Set(Log(Cur, <<"capture", t>>))

NextClicks == live_clicked_start \/ live_clicked_stop \/ live_loop_cb_tick

SpecClicks == InitClicks /\ [][NextClicks]_vars

\* ------------------------------------------------------------------ HTTP tester
\* send_clicked_cb, worker_do, worker_end, worker_cancel and keydown_cb of
\* src/07_Tizen_02_main.cpp.  jobs holds the job of every ecore_thread_run, worker is
\* ad->worker: the place of the job in jobs, or NoThread.  A job is "queued" until a
\* thread takes it, "running" in worker_do, "done" when worker_do has returned and
\* the main loop has not yet called worker_end or worker_cancel.
MaxJobs == 3
MaxBusy == 1

InFlight == {j \in 1..Len(jobs) : jobs[j].state \in {"queued", "running", "done"}}

\* a send_clicked_cb that would start a worker next to a running one
AlreadyRunningNever(w) == FALSE

\* if (ad->worker) return
AlreadyRunning(w) == w # NoThread

InitTester ==
  /\ TOKENS = ZeroTokens /\ file = NoFile /\ img = NoFile
  /\ live_running = FALSE /\ live_timer = NoTimer /\ refresh_timer = NoTimer
  /\ timers = {} /\ period = NoPeriods
  /\ pc = "idle" /\ handler = "none" /\ step = "none" /\ attempt = 0
  /\ grant = "none" /\ curTimer = NoTimer /\ url = EmptyStr
  /\ net = << >> /\ lastTok = EmptyStr /\ lastResp = NoResp
  /\ pre = Snapshot(ZeroTokens, NoFile, NoFile) /\ tokRet = "none" /\ apiRet = "none"
  /\ capRet = "none" /\ active = 0 /\ skipped = 0
  /\ program = "http_tester" /\ res = NoFile /\ ACCESS_TOKEN = NULL /\ clicked = FALSE
  /\ now = 0 /\ written = <<>> /\ worker = NoThread /\ jobs = <<>>

\* the variables the HTTP tester leaves alone, pc and net apart
testerRest ==
  <<TOKENS, file, img, live_running, live_timer, refresh_timer, timers, period,
    handler, step, attempt, grant, curTimer, url, lastTok, lastResp, pre,
    tokRet, apiRet, capRet, active, skipped, program, res, ACCESS_TOKEN, clicked,
    now, written>>

\* ecore_thread_cancel(th): a job still queued is taken out and worker_cancel runs
\* at once, a job in worker_do is marked and worker_cancel runs in place of
\* worker_end when worker_do has returned
ecore_thread_cancel(js, th) ==
  IF th \notin InFlight THEN js
  ELSE [js EXCEPT ![th] = IF @.state = "queued" THEN [@ EXCEPT !.state = "cancelled"]
                          ELSE [@ EXCEPT !.cancel = TRUE]]

\* Send is pressed with text u in the URL entry
send_clicked_cb ==
  /\ pc = "idle"
  /\ \E u \in {EmptyStr, <<"u">>} :
       IF AlreadyRunning(worker)
       THEN /\ Len(net) < MaxBusy
            /\ net' = Append(net, "busy")
            /\ UNCHANGED <<worker, jobs>>
       ELSE IF u = EmptyStr THEN UNCHANGED <<net, worker, jobs>>
       ELSE /\ Len(jobs) < MaxJobs
            /\ \E th \in {Len(jobs) + 1, NoThread} :
                 /\ jobs' = Append(jobs, [state |-> IF th = NoThread THEN "cancelled"
                                                     ELSE "queued",
                                          cancel |-> FALSE])
                 /\ worker' = th
            /\ UNCHANGED net
  /\ UNCHANGED <<pc, testerRest>>

\* a thread of the pool takes the job and enters worker_do
worker_do ==
  /\ \E j \in 1..Len(jobs) :
       /\ jobs[j].state = "queued"
       /\ jobs' = [jobs EXCEPT ![j].state = "running"]
  /\ UNCHANGED <<pc, net, worker, testerRest>>

\* curl_easy_perform is over and worker_do returns
worker_do_returns ==
  /\ \E j \in 1..Len(jobs) :
       /\ jobs[j].state = "running"
       /\ jobs' = [jobs EXCEPT ![j].state = "done"]
  /\ UNCHANGED <<pc, net, worker, testerRest>>

\* the main loop calls worker_end for a job that was not cancelled
worker_end ==
  /\ pc \in {"idle", "exiting"}
  /\ \E j \in 1..Len(jobs) :
       /\ jobs[j].state = "done" /\ ~jobs[j].cancel
       /\ jobs' = [jobs EXCEPT ![j].state = "ended"]
  /\ worker' = NoThread
  /\ UNCHANGED <<pc, net, testerRest>>

\* the main loop calls worker_cancel for a cancelled job: the job is freed and
\* ad->worker is left as it is
worker_cancel ==
  /\ pc \in {"idle", "exiting"}
  /\ \E j \in 1..Len(jobs) :
       /\ jobs[j].state = "done" /\ jobs[j].cancel
       /\ jobs' = [jobs EXCEPT ![j].state = "cancelled"]
  /\ UNCHANGED <<pc, net, worker, testerRest>>

\* the back key: the worker is cancelled and elm_exit asks the main loop to end
keydown_cb ==
  /\ pc = "idle"
  /\ jobs' = IF worker # NoThread THEN ecore_thread_cancel(jobs, worker) ELSE jobs
  /\ pc' = "exiting"
  /\ UNCHANGED <<net, worker, testerRest>>

\* elm_run returns: elm_main cancels the worker once more and returns
elm_run_returns ==
  /\ pc = "exiting"
  /\ jobs' = IF worker # NoThread THEN ecore_thread_cancel(jobs, worker) ELSE jobs
  /\ pc' = "exited"
  /\ UNCHANGED <<net, worker, testerRest>>

NextTester ==
  \/ send_clicked_cb \/ worker_do \/ worker_do_returns \/ worker_end \/ worker_cancel
  \/ keydown_cb \/ elm_run_returns

SpecTester == InitTester /\ [][NextTester]_vars

\* ------------------------------------------------------------------ properties: helpers
RECURSIVE CountIn(_, _)
CountIn(seq, set) ==
  IF seq = << >> THEN 0 ELSE (IF Head(seq) \in set THEN 1 ELSE 0) + CountIn(Tail(seq), set)

Requests == {"cmd", "status", "caps"}

\* the record of the perform_api_call (or of the get_access_token of app_create) that
\* starts at index i of net: up to the next call or to the download
SegmentEnd(i) ==
  LET nxt == {j \in (i + 1)..Len(net) : net[j] \in {"call", "download"}}
  IN  IF nxt = {} THEN Len(net) ELSE (CHOOSE j \in nxt : \A k \in nxt : j <= k) - 1
Segment(i) == Slice(net, i, SegmentEnd(i))
SegmentStarts == {i \in 1..Len(net) : net[i] = "call" \/ (i = 1 /\ net[i] # "download")}

\* the response carries no usable access token
NoAccessToken(r) == r \in {NoResp, EmptyStr} \/ JsonField(r, KeyAccess).val = EmptyStr

\* the last place of x in seq, 0 when there is none
LastIndexOf(seq, x) ==
  IF \E i \in 1..Len(seq) : seq[i] = x
  THEN CHOOSE i \in 1..Len(seq) : seq[i] = x /\ \A j \in (i + 1)..Len(seq) : seq[j] # x
  ELSE 0

\* the last token request of the running callback has returned and no later API call
\* has begun: lastResp is its response, pre the tokens and the store before it,
\* tokRet what token_refresh or token_exchange_code returned
TokenRequestOver ==
  LET p == LastIndexOf(net, "post_token")
  IN  p > 0 /\ p < Len(net) /\ LastIndexOf(net, "call") < p

\* the grant of the last token request
LastGrant == net[LastIndexOf(net, "post_token") - 1]

\* token requests sent for a refresh in a piece of the record
RefreshPosts(g) ==
  Cardinality({i \in 1..(Len(g) - 1) : g[i] = "refresh" /\ g[i + 1] = "post_token"})

\* the refresh of a piece of the record reported success
RefreshSucceeded(g) ==
  \E k \in 1..Len(g) : g[k] = "refresh" /\ \E m \in (k + 1)..Len(g) : g[m] = "tok_ok"

\* the access and the refresh token of a token set
TokenPair(t) == <<t.access_token, t.refresh_token>>

\* what a load of the store yields
Stored(f) == token_load(ZeroTokens, f)

\* ------------------------------------------------------------------ properties: live capture
\* C1: a 401 on any authenticated step of a capture (take command, status fetch,
\* download) is followed by exactly one refresh attempt and, when the refresh gave a
\* token, by exactly one retry of that step; a second 401 ends the step
C1_RetryOnceAfter401 ==
  pc = "returned" =>
    /\ \A i \in SegmentStarts :
         LET g == Segment(i)
         IN  Count(g, "r401") > 0 =>
               /\ Count(g, "refresh") = 1
               /\ CountIn(g, Requests) <= 2
               /\ RefreshSucceeded(g) => CountIn(g, Requests) = 2
    /\ \A i \in 1..Len(net) :
         net[i] = "http401" => \E j \in (i + 1)..Len(net) : net[j] = "refresh"

\* C2: a refresh or a code exchange whose response carries no access token, or an
\* empty one, reports failure whatever access token was held before
C2_NoAccessTokenIsFailure ==
  TokenRequestOver /\ NoAccessToken(lastResp) => tokRet = "fail"

\* C4: one API call sends at most one token request for a refresh, and at most one
\* token request is in flight at any time
C4_AtMostOneRefresh ==
  /\ \A i \in SegmentStarts : RefreshPosts(Segment(i)) <= 1
  /\ pc = "token_wait" => net[Len(net)] = "post_token" /\ grant \in {"refresh", "exchange"}
C4_Witness ==
  /\ pc = "returned" /\ handler = "live"
  /\ \E i \in SegmentStarts :
       RefreshPosts(Segment(i)) = 1 /\ Count(Segment(i), "r401") = 2

\* C5: when a refresh or a code exchange reports success, a load of the store yields
\* the access token and the refresh token that the response issued
C5_SuccessIsPersisted ==
  TokenRequestOver /\ tokRet = "ok" /\ ~NoAccessToken(lastResp) =>
    /\ Stored(file).access_token = JsonField(lastResp, KeyAccess).val
    /\ JsonField(lastResp, KeyRefresh).present =>
         Stored(file).refresh_token = JsonField(lastResp, KeyRefresh).val

\* C6: a token response that failed or that carries no access token leaves the
\* stored tokens as they were
C6_MalformedLeavesStore ==
  TokenRequestOver /\ NoAccessToken(lastResp) =>
    TokenPair(Stored(file)) = TokenPair(Stored(pre.file))

\* the store held the access token that the API has just rejected with 401 and a
\* refresh token, and the token endpoint answered the refresh with an access token
ScenarioB ==
  /\ TokenRequestOver /\ LastGrant = "refresh"
  /\ TokenPair(Stored(pre.file)) = TokenPair(pre.T)
  /\ ~NoAccessToken(lastResp)

ScenarioA(t) ==
  /\ t.access_token = EmptyStr /\ t.refresh_token = EmptyStr
  /\ t.auth_code # EmptyStr /\ t.client_id # EmptyStr /\ t.client_secret # EmptyStr

C10_OneCaptureInFlight ==
  /\ active <= 1
  /\ active = 1 <=> handler = "live" /\ pc \in {"token_wait", "http_wait", "download"}
C10_Witness == skipped > 0 /\ active = 1 /\ pc = "download"

\* ------------------------------------------------------------------ properties: download, store
\* a download has just ended and its transfer did not deliver the image
DownloadFailed ==
  net # << >> /\ net[Len(net)] \in {"cut", "noconn", "http401", "http500", "nofile"}

\* C3: when the transfer of a download fails, the destination file is absent or
\* holds what it held before the call, never a part of the new content
C3_NoPartialFile == DownloadFailed => img \in {NoFile, pre.img}

\* a valid token set has an access token (and the client's id and secret); a round
\* trip is a save that wrote the file followed by a load
ValidTokenSet(t) ==
  t.access_token # EmptyStr /\ t.client_id # EmptyStr /\ t.client_secret # EmptyStr
SameFields(t, u) == \A k \in (DOMAIN t \cap DOMAIN u) \ {"loaded"} : t[k] = u[k]
RoundTripDone == pc = "loaded" /\ net = <<"save", "load">> /\ ValidTokenSet(pre.T)

\* C7: a valid token set that is saved and then loaded comes back equal field by field
C7_SaveLoadRoundTrip == RoundTripDone => SameFields(TOKENS, pre.T)

\* the round trip through token_save and token_load of the live-capture application
LiveRoundTrip == RoundTripDone /\ IsLive(pre.T) => SameFields(TOKENS, pre.T)

\* ------------------------------------------------------------------ properties: scheduler
\* C11: cancelling the live timer is idempotent: no ecore_timer_del is ever given a
\* timer that was deleted or that stopped itself before, the handle the application
\* keeps is NULL or a timer that Ecore holds, and a cancel that follows a cancel
\* deletes nothing
C11_CancelIdempotent ==
  /\ Count(net, "del_dead") = 0
  /\ Count(net, "del") <= 1
  /\ live_timer # NoTimer => live_timer \in timers
C11_Witness ==
  pc = "terminated" /\ net = <<"del", "nodel">> /\ live_timer = NoTimer /\ timers = {}

\* C12: the refresh timer is armed with an interval of 24 hours and stays armed after
\* every firing; every firing calls refresh_tokens, which sends the refresh request
\* whenever there is a refresh token, whether or not there is an access token; no
\* capture is involved
C12_RefreshEveryDay ==
  /\ refresh_timer # NoTimer =>
       refresh_timer \in timers /\ period[refresh_timer] = 24 * 60 * 60
  /\ handler = "refresh_timer" =>
       /\ net # << >> /\ net[1] = "refresh"
       /\ curTimer \in timers /\ active = 0 /\ capRet = "none"
       /\ pre.T.refresh_token # EmptyStr <=> Count(net, "post_token") = 1
C12_Witness ==
  /\ handler = "refresh_timer" /\ pc = "returned" /\ tokRet = "ok"
  /\ pre.T.access_token # EmptyStr /\ net = <<"refresh", "post_token", "tok_ok">>

\* a tick of the live timer whose capture failed has returned
FailedTick == handler = "live" /\ pc = "returned" /\ capRet = "fail"

KindsIn(g) == {g[k] : k \in 1..Len(g)} \cap Requests

\* C14: a 401 makes perform_api_call repeat only its own request: every API call
\* sends requests of one step only, the request after a refresh is the one that got
\* the 401, and once the device command was accepted no command is sent again in
\* that capture
C14_RetryOnlyFailingCall ==
  /\ \A i \in SegmentStarts : Cardinality(KindsIn(Segment(i))) <= 1
  /\ \A i \in 1..Len(net) : \A j \in (i + 1)..Len(net) :
       /\ net[i] = "r401" /\ net[j] \in Requests
            /\ (\A k \in (i + 1)..(j - 1) : net[k] \notin Requests \cup {"call"})
          => net[j] = net[i - 1]
       /\ net[i] = "cmd" /\ i < Len(net) /\ net[i + 1] = "r200" => net[j] # "cmd"
  /\ Count(net, "status") > 0 => Count(net, "cmd") <= 2
C14_Witness ==
  /\ handler = "live" /\ pc = "returned" /\ capRet = "ok"
  /\ net = <<"call", "cmd", "r200", "call", "status", "r401", "refresh", "post_token",
             "tok_ok", "status", "r200", "download", "ok">>

\* the refresh of the running API call is over: at place i of the record it was
\* entered, and the call neither began a later refresh nor a later API call
RefreshOverAt(i) ==
  /\ net[i] = "refresh" /\ i < Len(net)
  /\ \A j \in (i + 1)..Len(net) : net[j] \notin {"refresh", "call"}

\* that refresh could not give a token: it had no refresh token to send, or the
\* request itself failed, or the response has no access_token
RefreshCannotSucceed(i) ==
  \/ net[i + 1] # "post_token"
  \/ i + 1 < Len(net) /\ (lastResp = NoResp \/ ~JsonField(lastResp, KeyAccess).present)

\* C15: a refresh without a refresh token, with a failed request or with a response
\* that has no access_token reports failure to its caller, and the API call sends
\* neither another token request nor another request after it
C15_FailedRefreshIsTerminal ==
  \A i \in 1..Len(net) :
    pc # "terminated" /\ RefreshOverAt(i) /\ RefreshCannotSucceed(i) =>
      /\ tokRet = "fail" /\ Count(Slice(net, i, Len(net)), "tok_fail") = 1
      /\ Count(Slice(net, i + 2, Len(net)), "post_token") = 0
      /\ CountIn(Slice(net, i, Len(net)), Requests) = 0

\* the token of tokens.txt is used as it was loaded: the request at place i of the
\* record of app_create is sent with no token request before it
UsedAsLoaded(i) ==
  /\ handler = "create" /\ net[i] \in Requests
  /\ \A j \in 1..(i - 1) : net[j] # "post_token"

\* C16: app_create takes the loaded access token for valid only after an authenticated
\* GET with it succeeded, and an access token that is answered with 401 is expired:
\* no later request is sent with it
C16_ValidOnlyAfterValidation ==
  \A i \in 1..Len(net) :
    /\ UsedAsLoaded(i) /\ net[i] = "cmd" =>
         \E j \in 1..(i - 2) : net[j] \in {"status", "caps"} /\ net[j + 1] = "r200"
    /\ UsedAsLoaded(i) /\ i < Len(net) /\ net[i + 1] = "r401" =>
         \A j \in (i + 2)..Len(net) : net[j] \notin Requests \cup {"download"}

\* C17: a first run, with no token.txt in the permanent folder, copies the token.txt
\* of the resources there and sends no request: neither a validation GET nor a token
\* request
C17_SeedingWithoutNetwork ==
  Count(net, "copy") > 0 =>
    /\ pre.file = NoFile
    /\ CountIn(net, {"validate", "post_token"}) = 0
    /\ file = res

\* the value that the well-formed line of key k gives in the text f, the empty
\* string when f has no such line
ValueOfKey(f, k) ==
  LET ls == Lines(f)
      at == {i \in 1..Len(ls) : Len(ls[i]) >= 2 /\ ls[i][1] = k /\ ls[i][2] = EQ}
      l == ls[CHOOSE i \in at : \A j \in at : j <= i]
  IN  IF at = {} THEN EmptyStr ELSE Slice(l, 3, RunEnd(l, {NL}, 3) - 1)

\* C18: a read of the store gives every key the value of its line, the empty string
\* when the file has no line for it, whether or not a line with no '=' stands
\* before, between or after the lines of the keys
C18_TolerantRead ==
  pc = "read_done" =>
    \A k \in {"client_id", "refresh_token", "access_token"} : TOKENS[k] = ValueOfKey(file, k)

\* the answers that make the command fail: no answer at all, or a status outside 2xx
CommandFailures == {"r0", "r401", "r500"}

\* C19: when the last answer to the 'take' command of a capture is a failure, the
\* capture ends there: neither the status request nor the download is done
C19_AbortAtCommand ==
  LET c == LastIndexOf(net, "cmd")
  IN  c > 0 /\ c < Len(net) /\ net[c + 1] \in CommandFailures =>
        /\ Count(net, "status") = 0 /\ Count(net, "download") = 0
        /\ pc \in {"returned", "terminated"} => capRet # "ok"

UpToQuote(body) ==
  LET f == IndexFrom(body, HTTPS, 1)
  IN  IF f = 0 THEN EmptyStr ELSE Slice(body, f, RunEnd(body, {QUOTE}, f) - 1)

\* C21: from a status body with a URL in quotes the extraction takes the text from
\* the first "https://" up to the next quote, and nothing else
C21_ExtractsUpToQuote ==
  pc = "extracted" /\ IndexFrom(lastResp, HTTPS, 1) > 0
    /\ IndexFrom(lastResp, QUOTE, IndexFrom(lastResp, HTTPS, 1)) > 0
  => url = UpToQuote(lastResp)

\* C22: the download of a URL that carries one of the markers of a signed URL
\* (X-Amz-, ?token=, sig=, aws) is sent without an Authorization header
C22_NoAuthorizationForSignedUrl ==
  pc = "download_done"
    /\ (\E k \in 1..Len(url) : url[k] \in SignedMarkers("part_009"))
  => Count(net, "auth") = 0

\* C23: once the user has stopped live capture while a capture runs, that capture
\* ends its current request and begins nothing more: no API call, no token request,
\* no request after a refresh, no download
C23_NoStepAfterStop ==
  \A i \in 1..Len(net) :
    net[i] = "click" =>
      \A j \in (i + 1)..Len(net) :
        net[j] \notin Requests \cup {"call", "exchange", "refresh", "post_token", "download"}

\* C24: two different capture invocations never write to the same destination file
C24_DistinctDestinations ==
  \A i, j \in 1..Len(written) :
    i # j /\ written[i].wrote /\ written[j].wrote => written[i].path # written[j].path

\* two timers have both invoked a capture and both are armed
BothInvoke ==
  \E i, j \in 1..Len(net) : net[i][2] # net[j][2] /\ {net[i][2], net[j][2]} \subseteq timers

\* C25: whatever the Start and Stop clicks were, at most one live-capture timer is
\* armed, and no two armed timers have both invoked the capture
C25_OneLiveTimer == Cardinality(LiveTimers) <= 1 /\ ~BothInvoke

\* C26: while live capture is stopped the live loop starts no capture; a tick that
\* finds it stopped only ends its timer
C26_NoCaptureWhileStopped == [][Len(net') > Len(net) => live_running /\ live_running']_vars

\* live capture of src/yep.c made a capture and was stopped, and the tick after the
\* stop has come
C26_Witness == program = "yep" /\ ~live_running /\ Len(net) > 0 /\ timers = {}

\* the places of the record where the refresh that a 401 set off has failed
FailedRefreshes ==
  {i \in 2..Len(net) :
     /\ net[i] = "tok_fail"
     /\ \/ net[i - 1] = "refresh"
        \/ i > 2 /\ net[i - 1] = "post_token" /\ net[i - 2] = "refresh"}

\* C27: after a failed refresh on a 401 the call is not sent again, and
\* perform_api_call returns false to its caller
C27_NoResendAfterFailedRefresh ==
  pc # "terminated" =>
    \A i \in FailedRefreshes :
      /\ \A j \in (i + 1)..Len(net) : net[j] \notin Requests
      /\ apiRet = "fail"

\* the token request of a refresh came back without a token
C27_Witness ==
  \E i \in FailedRefreshes : net[i - 1] = "post_token" /\ pc = "returned"

\* a token request has just come back and token_request reported failure
TokenRequestFailed ==
  /\ Len(net) > 1 /\ net[Len(net)] = "tok_fail" /\ net[Len(net) - 1] = "post_token"
  /\ pc # "terminated"

\* C28: a token request that reports failure leaves access_token and refresh_token
\* of TOKENS as they were when the request was made
C28_FailureLeavesTokens ==
  TokenRequestFailed =>
    /\ TOKENS.access_token = pre.T.access_token
    /\ TOKENS.refresh_token = pre.T.refresh_token

\* C29: when app_create of the auto-refresh application has returned, the 24h
\* refresh timer is armed, on the path without a token file as on the others; the
\* one exception made is an ecore_timer_add that was called and gave no timer
C29_RefreshTimerAlwaysArmed ==
  handler = "create" /\ pc = "returned" =>
    \/ refresh_timer \in timers /\ period[refresh_timer] = RefreshPeriod
    \/ file # NoFile /\ refresh_timer = NoTimer

\* C30: at most one request worker of the HTTP tester is in flight, it is the one
\* ad->worker names, a Send click while ad->worker is set starts none, and
\* ad->worker goes back to NULL only in the step in which its worker ends
C30_OneWorker ==
  /\ [](Cardinality(InFlight) <= 1 /\ InFlight \subseteq {worker})
  /\ [][/\ worker # NoThread /\ Len(jobs') > Len(jobs) => FALSE
        /\ worker # NoThread /\ worker' = NoThread =>
             jobs[worker].state = "done" /\ jobs'[worker].state = "ended"]_vars

\* a Send click found the second worker running after the first had ended
C30_Witness ==
  /\ Len(jobs) = 2 /\ jobs[1].state = "ended" /\ jobs[2].state = "running"
  /\ worker = 2 /\ net = <<"busy">>
====
